---- MODULE Spec2Model ----
(***************************************************************************)
(* A model of src/wasmjit/compile.c: the single-pass translator from a     *)
(* WebAssembly function body to x86_64 machine code.                       *)
(*                                                                         *)
(* The translator is modelled one handler at a time.  Every handler is a   *)
(* list of primitive steps (an output_buf call, a static-stack push or     *)
(* pop, a table growth, an assertion) taken in the order of the source;    *)
(* Exec runs such a list and stops at the first step that fails.  The      *)
(* physical effect of the emitted bytes is kept per output_buf call: the   *)
(* change of %rsp in 8-byte cells made by the instruction the bytes        *)
(* decode to.  OUTS emits strlen(str) bytes, so a string literal with an   *)
(* embedded zero byte is cut there; the byte counts below are the counts   *)
(* the C code really emits.                                                *)
(***************************************************************************)
EXTENDS Integers, Sequences, FiniteSets, TLC

VARIABLES
    pc,             \* "start", "body", "done", "failed", "aborted", "crashed"
    ndebug,         \* TRUE: built with NDEBUG, assert() compiled out
    type,           \* the FuncType of the function being compiled
    decl,           \* code->locals flattened: the declared locals' types
    locals_md,      \* struct LocalsMD[]: <<[valtype, fp_offset]>>
    n_frame_locals,
    sstack,         \* struct StaticStack
    labels,         \* struct LabelContinuations
    branches,       \* struct BranchPoints
    memrefs,        \* struct MemoryReferences (entries appended by this call)
    outN,           \* output->n_elts
    addrImms,       \* offsets of the 8-byte placeholder address immediates
    constImms,      \* offsets of the 8-byte i64.const / f64.const immediates
    heap,           \* buffers obtained from the allocator and not released
    ctl,            \* the C call stack of block / loop / if handlers
    vstack,         \* operand types of the validated input program
    ninstr,         \* instructions handed to the translator so far
    nfail,          \* allocation failures so far
    flags,          \* what happened: [unsup, nested, ignored]
    rspCells,       \* operand cells pushed by the emitted code since the prologue
    rspOk,          \* FALSE once emitted code overwrote %rsp
    straight,       \* only straight-line opcodes have been translated
    last,           \* the effect of the handler that ran last
    patch,          \* the back-patches applied: <<[branch_offset, cont, ok]>>
    mx              \* the part looked at closely: the machine executing emitted
                    \* code, or one table of the compiler being worked through

vars == <<pc, ndebug, type, decl, locals_md, n_frame_locals, sstack, labels,
          branches, memrefs, outN, addrImms, constImms, heap, ctl, vstack,
          ninstr, nfail, flags, rspCells, rspOk, straight, last, patch, mx>>

compVars == <<pc, ndebug, type, decl, locals_md, n_frame_locals, sstack, labels,
              branches, memrefs, outN, addrImms, constImms, heap, ctl, vstack,
              ninstr, nfail, flags, rspCells, rspOk, straight, last, patch>>

(***************************************************************************)
(* Bounds of the model.                                                    *)
(***************************************************************************)
MaxInstr == 3       \* instructions in the function body
MaxDepth == 2       \* nesting depth of block / loop / if
MaxFail == 1        \* allocation failures during one compilation

(***************************************************************************)
(* Program constants.                                                      *)
(***************************************************************************)
FUNC_EXIT_CONT == -1        \* SIZE_MAX, i.e. (size_t)-1: no table index
N_GPR_ARGS == 6             \* n_movs < 6
N_XMM_ARGS == 8             \* n_xmm_movs < 8

IntTypes == {"i32", "i64"}
FloatTypes == {"f32", "f64"}
ValTypes == IntTypes \cup FloatTypes

Min(a, b) == IF a < b THEN a ELSE b
Last(s) == s[Len(s)]
Front(s) == SubSeq(s, 1, Len(s) - 1)
Suffix(s, n) == SubSeq(s, Len(s) - n + 1, Len(s))
Rep(x, n) == [i \in 1..n |-> x]
Range(s) == {s[i] : i \in 1..Len(s)}

(***************************************************************************)
(* The module's types: func_types / module_types->functypes and            *)
(* module_types->globaltypes.  Indices in the C code are 0-based.          *)
(***************************************************************************)
FuncTypes ==
    << [inputs |-> <<>>, outputs |-> <<>>],
       [inputs |-> <<"i32">>, outputs |-> <<"i32">>],
       [inputs |-> <<"f64", "f64">>, outputs |-> <<"f64">>],
       [inputs |-> Rep("i32", 7), outputs |-> <<>>] >>

GlobalTypes == <<"i32", "f64">>

LocalDecls == { <<>>, <<"i64">>, <<"i32", "f64">> }

FUNC_TYPE_N_OUTPUTS(ft) == Len(ft.outputs)

(***************************************************************************)
(* Static stack slots.  A value slot has only its type written by          *)
(* push_stack; the label fields of such a slot are never initialised.      *)
(***************************************************************************)
Value(t) == [type |-> t, arity |-> 0, cont |-> 0]
LabelSlot(a, c) == [type |-> "label", arity |-> a, cont |-> c]

RECURSIVE ValueCount(_)
ValueCount(s) ==
    IF s = <<>> THEN 0
    ELSE (IF Last(s).type # "label" THEN 1 ELSE 0) + ValueCount(Front(s))

(***************************************************************************)
(* What an indeterminate read may yield: the label fields of a slot that   *)
(* is not a label, and the idx of a relocation entry that was never set.   *)
(***************************************************************************)
NoGarbage == [arity |-> 0, cont |-> 0, crash |-> FALSE, idx |-> 0]
LabelGarbage ==
    [arity : {0, 1}, cont : {0, 3, FUNC_EXIT_CONT}, crash : BOOLEAN, idx : {0}]
IdxGarbage == [arity : {0}, cont : {0}, crash : {FALSE}, idx : {0, 7}]

(***************************************************************************)
(* Primitive steps of a handler.                                           *)
(*   out     output_buf of n bytes (OUTS, OUTB or a direct call); d is the *)
(*           change in the number of cells on the physical stack made by   *)
(*           the machine instruction the bytes complete, clob says that    *)
(*           the instruction overwrites %rsp, imm marks a 10-byte          *)
(*           "mov $imm64, %reg" with a placeholder ("addr") or an 8-byte   *)
(*           constant ("const"), call marks "call *%rax"                   *)
(*   push    push_stack(type); chk: the result is tested                   *)
(*   pop     pop_stack(); chk: the result is tested                        *)
(*   top     assert(peek_stack(sstack) == t)                               *)
(*   check   assert(b)                                                     *)
(*   slot    stack_grow + a label slot                                     *)
(*   label   INC_LABELS                                                    *)
(*   memref  memrefs_grow + an entry at output->n_elts + rel               *)
(*   bp      bp_grow + an entry at output->n_elts + rel                    *)
(*   trunc   stack_truncate(sstack, n_elts - n)                            *)
(*   alloc   calloc / wasmjit_alloc_vector of the buffer named t           *)
(*   fail    goto error                                                    *)
(*   br      emit_br_code(labelidx L)                                      *)
(***************************************************************************)
NoStep ==
    [k |-> "", n |-> 0, d |-> 0, clob |-> FALSE, imm |-> "", call |-> FALSE,
     t |-> "", chk |-> FALSE, rel |-> 0, idx |-> 0, cont |-> 0, L |-> 0,
     b |-> TRUE, arity |-> 0]

O(n) == [NoStep EXCEPT !.k = "out", !.n = n]
Od(n, d) == [NoStep EXCEPT !.k = "out", !.n = n, !.d = d]
Oclob(n) == [NoStep EXCEPT !.k = "out", !.n = n, !.clob = TRUE]
Oaddr == [NoStep EXCEPT !.k = "out", !.n = 10, !.imm = "addr"]
Oconst == [NoStep EXCEPT !.k = "out", !.n = 8, !.imm = "const"]
Ocall == [NoStep EXCEPT !.k = "out", !.n = 2, !.call = TRUE]
Push(t, chk) == [NoStep EXCEPT !.k = "push", !.t = t, !.chk = chk]
Pop(chk) == [NoStep EXCEPT !.k = "pop", !.chk = chk]
AssertTop(t) == [NoStep EXCEPT !.k = "top", !.t = t]
AssertC(b) == [NoStep EXCEPT !.k = "check", !.b = b]
Slot(a, c) == [NoStep EXCEPT !.k = "slot", !.arity = a, !.cont = c]
LabelGrow == [NoStep EXCEPT !.k = "label"]
Memref(t, rel, idx) ==
    [NoStep EXCEPT !.k = "memref", !.t = t, !.rel = rel, !.idx = idx]
Bp(rel, c) == [NoStep EXCEPT !.k = "bp", !.rel = rel, !.cont = c]
Trunc(n) == [NoStep EXCEPT !.k = "trunc", !.n = n]
Alloc(t) == [NoStep EXCEPT !.k = "alloc", !.t = t]
Fail == [NoStep EXCEPT !.k = "fail"]
Crash == [NoStep EXCEPT !.k = "crash"]
Br(L) == [NoStep EXCEPT !.k = "br", !.L = L]

(***************************************************************************)
(* The state a handler works on.  c counts the allocator calls made by the *)
(* handler, f is the call that fails (0: none).  phys is the number of     *)
(* 8-byte cells between %rbp and %rsp, starting at the height the static   *)
(* stack stands for when the handler begins.                               *)
(***************************************************************************)
Fails(st) == st.c + 1 = st.f
Tick(st) == [st EXCEPT !.c = @ + 1]
Err(st) == [st EXCEPT !.res = "error"]

\* vector growth (DEFINE_VECTOR_GROW users) and output_buf: all or nothing
DoOut(st, o) ==
    IF Fails(st) THEN Err(Tick(st))
    ELSE [Tick(st) EXCEPT
            !.outN = @ + o.n,
            !.rsp = @ + o.d,
            !.phys = @ + o.d,
            !.clob = @ \/ o.clob,
            !.addrImms = IF o.imm = "addr" THEN Append(@, st.outN + 2) ELSE @,
            !.constImms = IF o.imm = "const" THEN Append(@, st.outN) ELSE @,
            !.calls = IF o.call THEN Append(@, (8 * st.phys) % 16) ELSE @]

DoPush(st, o) ==
    IF Fails(st)
    THEN IF o.chk THEN Err(Tick(st)) ELSE [Tick(st) EXCEPT !.ignored = TRUE]
    ELSE [Tick(st) EXCEPT !.sstack = Append(@, Value(o.t))]

\* pop_stack on an empty stack: assert(n_elts), then stack_truncate to
\* n_elts - 1 = SIZE_MAX elements, which cannot be allocated
DoPop(st, o) ==
    IF st.sstack = <<>>
    THEN IF ~st.nd THEN [st EXCEPT !.res = "abort"]
         ELSE IF o.chk THEN Err(st) ELSE st
    ELSE [st EXCEPT !.sstack = Front(@)]

DoTop(st, o) ==
    IF ~st.nd /\ (st.sstack = <<>> \/ Last(st.sstack).type # o.t)
    THEN [st EXCEPT !.res = "abort"]
    ELSE st

DoCheck(st, o) ==
    IF ~st.nd /\ ~o.b THEN [st EXCEPT !.res = "abort"] ELSE st

DoSlot(st, o) ==
    IF Fails(st) THEN Err(Tick(st))
    ELSE [Tick(st) EXCEPT !.sstack = Append(@, LabelSlot(o.arity, o.cont))]

DoLabel(st) ==
    IF Fails(st) THEN Err(Tick(st))
    ELSE [Tick(st) EXCEPT !.labels = Append(@, [set |-> FALSE, off |-> 0])]

DoMemref(st, o) ==
    IF Fails(st) THEN Err(Tick(st))
    ELSE [Tick(st) EXCEPT
            !.memrefs = Append(@, [type |-> o.t,
                                   code_offset |-> st.outN + o.rel,
                                   idx |-> o.idx])]

DoBp(st, o) ==
    IF Fails(st) THEN Err(Tick(st))
    ELSE [Tick(st) EXCEPT
            !.branches = Append(@, [branch_offset |-> st.outN + o.rel,
                                    continuation_idx |-> o.cont])]

DoTrunc(st, o) ==
    IF Len(st.sstack) < o.n THEN Err(st)
    ELSE [st EXCEPT !.sstack = SubSeq(@, 1, Len(@) - o.n)]

DoAlloc(st, o) ==
    IF Fails(st) THEN Err(Tick(st))
    ELSE [Tick(st) EXCEPT !.heap = @ \cup {o.t}]

(***************************************************************************)
(* emit_br_code.  The walk leaves j at the slot of the L-th label from the *)
(* top, or at 0 when the stack has fewer labels; elts[j] is then read      *)
(* whatever it is.                                                         *)
(***************************************************************************)
RECURSIVE Walk(_, _, _)
Walk(s, j, l) ==
    IF j = 0 THEN 0
    ELSE IF s[j].type = "label"
         THEN IF l = 0 THEN j - 1 ELSE Walk(s, j - 1, l - 1)
         ELSE Walk(s, j - 1, l)

emit_br_code(st, L) ==
    LET s == st.sstack
        j == Walk(s, Len(s), L)
        oob == s = <<>>
        isLabel == ~oob /\ s[j + 1].type = "label"
        arity == IF isLabel THEN s[j + 1].arity ELSE st.g.arity
        cont == IF isLabel THEN s[j + 1].cont ELSE st.g.cont
        cnt == Len(s) - j - (L + 1) - arity
        move == IF arity > 0
                THEN <<O(3)>>
                     \o (IF arity - 1 # 0 THEN <<O(4), O(4)>> ELSE <<>>)
                     \o <<O(3)>>
                     \o (IF arity - 1 + 8 * cnt # 0 THEN <<O(3), O(4)>> ELSE <<>>)
                     \o <<O(3), O(4), O(1), O(2)>>
                ELSE <<>>
        shift == IF cnt # 0 THEN <<O(3), Od(4, -cnt)>> ELSE <<>>
    IN  IF oob /\ st.g.crash THEN <<Crash>>
        ELSE <<AssertC(cnt >= 0)>>
             \o (IF cnt < 0 THEN <<Fail>>
                 ELSE move \o shift \o <<O(5), Bp(-5, cont)>>)

RECURSIVE Exec(_, _)
Exec(ops, st) ==
    IF ops = <<>> \/ st.res # "run" THEN st
    ELSE LET o == Head(ops)
             r == Tail(ops)
         IN  CASE o.k = "out" -> Exec(r, DoOut(st, o))
               [] o.k = "push" -> Exec(r, DoPush(st, o))
               [] o.k = "pop" -> Exec(r, DoPop(st, o))
               [] o.k = "top" -> Exec(r, DoTop(st, o))
               [] o.k = "check" -> Exec(r, DoCheck(st, o))
               [] o.k = "slot" -> Exec(r, DoSlot(st, o))
               [] o.k = "label" -> Exec(r, DoLabel(st))
               [] o.k = "memref" -> Exec(r, DoMemref(st, o))
               [] o.k = "bp" -> Exec(r, DoBp(st, o))
               [] o.k = "trunc" -> Exec(r, DoTrunc(st, o))
               [] o.k = "alloc" -> Exec(r, DoAlloc(st, o))
               [] o.k = "fail" -> Err(st)
               [] o.k = "crash" -> [st EXCEPT !.res = "crash"]
               [] o.k = "br" -> Exec(emit_br_code(st, o.L) \o r, st)

(***************************************************************************)
(* The opcodes of the switch in wasmjit_compile_instruction, grouped as    *)
(* the case labels group them, and two opcodes the switch does not have.   *)
(***************************************************************************)
CmpI32 == {"i32.eq", "i32.ne", "i32.lt_s", "i32.lt_u", "i32.gt_s", "i32.gt_u",
           "i32.le_s", "i32.le_u", "i32.ge_s"}
CmpI64 == {"i64.eq", "i64.ne", "i64.lt_s", "i64.gt_u"}
CmpF64 == {"f64.eq", "f64.ne"}
ArithI32 == {"i32.sub", "i32.add", "i32.mul", "i32.and", "i32.or", "i32.xor"}
ArithI64 == {"i64.add", "i64.sub", "i64.mul", "i64.and", "i64.or"}
DivI32 == {"i32.div_s", "i32.div_u", "i32.rem_s", "i32.rem_u"}
DivI64 == {"i64.div_s", "i64.div_u", "i64.rem_s", "i64.rem_u"}
ShiftI32 == {"i32.shl", "i32.shr_s", "i32.shr_u"}
ShiftI64 == {"i64.shl", "i64.shr_s", "i64.shr_u"}
ArithF64 == {"f64.add", "f64.sub", "f64.mul"}
Loads == {"i32.load", "i64.load", "f64.load", "i32.load8_s"}
Stores == {"i32.store", "i64.store", "f64.store", "i32.store8", "i32.store16"}
Unsupported == {"i64.xor", "f32.const"}
SignedDiv == {"i32.div_s", "i32.rem_s", "i64.div_s", "i64.rem_s"}
Transfers == {"br", "br_table", "return", "unreachable"}
ControlOps == Transfers \cup {"br_if", "block", "loop", "if"}

\* the value type a load pushes / a store pops
AccessType(op) ==
    CASE op \in {"i32.load", "i32.load8_s", "i32.store", "i32.store8",
                 "i32.store16"} -> "i32"
      [] op \in {"i64.load", "i64.store"} -> "i64"
      [] op \in {"f64.load", "f64.store"} -> "f64"

Instr(op) == [op |-> op, idx |-> 0, bt |-> "", ls |-> <<>>, off |-> 0]

(***************************************************************************)
(* The System V classification both the call sites and the prologue use:   *)
(* per input "gpr", "xmm" or "stack".                                      *)
(***************************************************************************)
RECURSIVE Classify(_, _, _)
Classify(inputs, n_movs, n_xmm_movs) ==
    IF inputs = <<>> THEN <<>>
    ELSE LET t == Head(inputs)
         IN  IF t \in IntTypes /\ n_movs < N_GPR_ARGS
             THEN <<"gpr">> \o Classify(Tail(inputs), n_movs + 1, n_xmm_movs)
             ELSE IF t \in FloatTypes /\ n_xmm_movs < N_XMM_ARGS
             THEN <<"xmm">> \o Classify(Tail(inputs), n_movs, n_xmm_movs + 1)
             ELSE <<"stack">> \o Classify(Tail(inputs), n_movs, n_xmm_movs)

CountOf(s, x) == Cardinality({i \in 1..Len(s) : s[i] = x})

\* the argument loop of a call: assert, mov / movss / movsd / push, disp32
RECURSIVE ArgSteps(_, _, _, _)
ArgSteps(ft, cls, s, i) ==
    IF i > Len(ft.inputs) THEN <<>>
    ELSE LET at == Len(s) - Len(ft.inputs) + i
             okSlot == at >= 1 /\ at <= Len(s) /\ s[at].type = ft.inputs[i]
             mov == CASE cls[i] = "gpr" -> O(4)
                      [] cls[i] = "xmm" -> O(5)
                      [] cls[i] = "stack" -> O(3)
             disp == IF cls[i] = "stack" THEN Od(4, 1) ELSE O(4)
         IN  <<AssertC(okSlot), mov, disp>> \o ArgSteps(ft, cls, s, i + 1)

CallSteps(i, s0, nfl, g) ==
    LET indirect == i.op = "call_indirect"
        ft == FuncTypes[i.idx + 1]
        cur == nfl + ValueCount(s0)
        s1 == IF indirect /\ s0 # <<>> THEN Front(s0) ELSE s0
        pad1 == cur % 2
        cls == Classify(ft.inputs, 0, 0)
        n_stack == CountOf(cls, "stack")
        aligned == (cur + n_stack) % 2
        n_in == Len(ft.inputs)
        head == IF indirect
                THEN <<AssertTop("i32"), Pop(TRUE),
                       Oaddr, Memref("table", -8, 0),
                       Oaddr, Memref("type", -8, i.idx),
                       Od(1, -1),
                       Oaddr, Memref("resolve_indirect_call", -8, g.idx)>>
                     \o (IF pad1 = 1 THEN <<Od(4, 1)>> ELSE <<>>)
                     \o <<Ocall>>
                     \o (IF pad1 = 1 THEN <<Od(4, -1)>> ELSE <<>>)
                ELSE <<Memref("func", 2, i.idx), Oaddr, O(3), O(1)>>
        result == IF FUNC_TYPE_N_OUTPUTS(ft) > 0
                  THEN (IF ft.outputs[1] \in FloatTypes THEN <<O(5)>> ELSE <<>>)
                       \o <<Od(1, 1), Push(ft.outputs[1], TRUE)>>
                  ELSE <<>>
    IN  head
        \o (IF aligned = 1 THEN <<Od(4, 1)>> ELSE <<>>)
        \o ArgSteps(ft, cls, s1, 1)
        \o <<Ocall, O(3), Od(4, -(n_stack + n_in + aligned)), Trunc(n_in)>>
        \o result

\* loads and stores
MemSteps(i) ==
    LET op == i.op
        t == AccessType(op)
        val == IF op \in Stores THEN <<AssertTop(t), Pop(TRUE), Od(1, -1)>>
               ELSE <<>>
        add == IF 4 + i.off # 0 THEN <<O(3), O(4)>> ELSE <<>>
        access == CASE op = "i32.load" -> <<O(4), Od(1, 1), Push(t, TRUE)>>
                    [] op \in Loads \ {"i32.load"} ->
                           <<O(5), Od(1, 1), Push(t, TRUE)>>
                    [] op = "i32.store" -> <<O(4)>>
                    [] OTHER -> <<O(5)>>
    IN  val
        \o <<AssertTop("i32"), Pop(TRUE), Od(1, -1)>>
        \o add
        \o <<Oaddr, Memref("mem", -8, 0), O(3), O(1), O(3), O(4)>>
        \o <<Oaddr, Memref("mem", -8, 0), O(3), O(1)>>
        \o access

BrTableSteps(i) ==
    LET n == Len(i.ls)
    IN  <<Alloc("end_jumps"), Od(1, -1), Pop(TRUE), O(2), O(4), O(6),
          O(4), O(4), O(3), O(2)>>
        \o [k \in 1..n |-> O(4)]
        \o [k \in 1..(2 * n) |-> IF k % 2 = 1 THEN Br(i.ls[(k + 1) \div 2])
                                 ELSE O(5)]
        \o <<Br(i.idx)>>

ReturnSteps(ft, nfl) ==
    (IF FUNC_TYPE_N_OUTPUTS(ft) > 0
     THEN <<O(4), AssertC((FUNC_TYPE_N_OUTPUTS(ft) - 1) * 8 <= 127), O(1),
            O(3), O(4), O(3), O(4), O(1), O(2)>>
     ELSE <<>>)
    \o <<O(3), O(4), Bp(0, FUNC_EXIT_CONT), O(5)>>

(***************************************************************************)
(* The primitive steps of every opcode but block, loop and if.  W is the   *)
(* REX.W prefix byte the 64-bit forms emit with a separate OUTS.           *)
(***************************************************************************)
Steps(i, s0, md, ft, nfl, g) ==
    LET op == i.op
        T == IF op \in CmpI64 \cup ArithI64 \cup DivI64 \cup ShiftI64
             THEN "i64" ELSE "i32"
        W == IF T = "i64" THEN <<O(1)>> ELSE <<>>
    IN
    CASE op = "unreachable" -> <<O(1)>>
      [] op = "nop" -> <<>>
      [] op = "br" -> <<Br(i.idx)>>
      [] op = "br_if" ->
            <<AssertTop("i32"), Pop(TRUE), Od(1, -1), O(2), O(2), Br(i.idx)>>
      [] op = "br_table" -> BrTableSteps(i)
      [] op = "return" -> ReturnSteps(ft, nfl)
      [] op \in {"call", "call_indirect"} -> CallSteps(i, s0, nfl, g)
      [] op = "drop" -> <<Od(4, -1), Pop(TRUE)>>
      [] op = "get_local" ->
            <<AssertC(i.idx < Len(md)), Push(md[i.idx + 1].valtype, FALSE),
              O(2), Od(4, 1)>>
      [] op = "set_local" ->
            <<AssertTop(md[i.idx + 1].valtype), O(2), Od(4, -1), Pop(FALSE)>>
      [] op = "tee_local" ->
            <<AssertTop(md[i.idx + 1].valtype), Oclob(5), O(3), O(4)>>
      [] op = "get_global" ->
            <<Oaddr, Memref("global", -8, i.idx)>>
            \o (IF GlobalTypes[i.idx + 1] \in {"i32", "f32"}
                THEN <<O(2), O(1)>> ELSE <<O(3), O(1)>>)
            \o <<Od(1, 1), Push(GlobalTypes[i.idx + 1], FALSE)>>
      [] op = "set_global" ->
            <<Od(1, -1), AssertTop(GlobalTypes[i.idx + 1]), Pop(TRUE),
              Oaddr, Memref("global", -8, i.idx)>>
            \o (IF GlobalTypes[i.idx + 1] \in {"i32", "f32"}
                THEN <<O(2), O(1)>> ELSE <<O(3), O(1)>>)
      [] op \in Loads \cup Stores -> MemSteps(i)
      [] op = "i32.const" -> <<O(1), Od(4, 1), Push("i32", FALSE)>>
      [] op \in {"i64.const", "f64.const"} ->
            <<O(2), Oconst, Od(1, 1),
              Push(IF op = "i64.const" THEN "i64" ELSE "f64", FALSE)>>
      [] op = "i32.eqz" -> <<AssertTop("i32"), O(2), O(3), Oclob(3), O(3)>>
      [] op \in CmpI32 \cup CmpI64 ->
            <<AssertTop(T), Pop(FALSE), AssertTop(T), Pop(FALSE), Od(1, -1)>>
            \o W \o <<O(2)>> \o W \o <<O(3), O(3)>> \o W
            \o <<O(3), Push("i32", FALSE)>>
      [] op \in CmpF64 ->
            <<AssertTop("f64"), Pop(FALSE), AssertTop("f64"), Pop(FALSE),
              O(5), Od(4, -1), O(2), O(2), O(5), O(3), O(3), O(4),
              Push("i32", FALSE)>>
      [] op \in ArithI32 \cup ArithI64 ->
            <<AssertTop(T), Pop(FALSE), Od(1, -1), AssertTop(T)>> \o W
            \o (IF op \in {"i32.mul", "i64.mul"}
                THEN <<O(3)>> \o W \o <<O(3)>> ELSE <<O(3)>>)
      [] op \in DivI32 \cup DivI64 ->
            <<AssertTop(T), Pop(FALSE), AssertTop(T), Od(1, -1)>> \o W
            \o <<O(3)>> \o W
            \o (IF op \in SignedDiv THEN <<O(1)>> \o W \o <<O(2)>>
                ELSE <<O(2)>> \o W \o <<O(2)>>)
            \o W \o <<O(3)>>
      [] op \in ShiftI32 \cup ShiftI64 ->
            <<Od(1, -1), AssertTop(T), Pop(FALSE), AssertTop(T)>> \o W
            \o (IF op \in {"i32.shl", "i64.shl"} THEN <<O(5)>> ELSE <<O(3)>>)
      [] op = "f64.neg" -> <<AssertTop("f64"), O(6)>>
      [] op \in ArithF64 ->
            <<AssertTop("f64"), Pop(FALSE), AssertTop("f64"),
              O(4), O(4), O(5), O(5)>>
      [] op = "i32.wrap_i64" ->
            <<AssertTop("i64"), Pop(FALSE), O(5), O(3), Push("i32", TRUE)>>
      [] op \in {"i32.trunc_u_f64", "i32.trunc_s_f64"} ->
            <<AssertTop("f64"), Pop(FALSE), O(5), O(4), Push("i32", TRUE)>>
      [] op = "i64.extend_s_i32" ->
            <<AssertTop("i32"), Pop(FALSE), O(4), O(4), Push("i64", TRUE)>>
      [] op = "i64.extend_u_i32" ->
            <<AssertTop("i32"), Pop(FALSE), Push("i64", TRUE)>>
      [] op = "f64.convert_s_i32" ->
            <<AssertTop("i32"), Pop(FALSE), O(5), O(5), Push("f64", TRUE)>>
      [] op = "f64.convert_u_i32" ->
            <<AssertTop("i32"), Pop(FALSE), O(3), O(5), O(5), Push("f64", TRUE)>>
      [] op = "i64.reinterpret_f64" ->
            <<AssertTop("f64"), Pop(FALSE), Push("i64", TRUE)>>
      [] op = "f64.reinterpret_i64" ->
            <<AssertTop("i64"), Pop(FALSE), Push("f64", TRUE)>>
      [] op \in Unsupported -> <<AssertC(FALSE)>>

(***************************************************************************)
(* Frame layout (wasmjit_compile_function, the locals_md block).           *)
(***************************************************************************)
\* a layout that puts the first stack-passed parameter at +8
ParamOffsetLow(cls, i) ==
    IF cls[i] = "stack"
    THEN (CountOf(SubSeq(cls, 1, i - 1), "stack") + 1) * 8
    ELSE -(1 + (i - 1) - CountOf(SubSeq(cls, 1, i - 1), "stack")) * 8

ParamOffset(cls, i) ==
    IF cls[i] = "stack"
    THEN (CountOf(SubSeq(cls, 1, i - 1), "stack") + 2) * 8
    ELSE -(1 + (i - 1) - CountOf(SubSeq(cls, 1, i - 1), "stack")) * 8

ComputeLocalsMD(ft, dl) ==
    LET cls == Classify(ft.inputs, 0, 0)
        n_reg == Len(cls) - CountOf(cls, "stack")
    IN  [i \in 1..Len(ft.inputs) |->
            [valtype |-> ft.inputs[i], fp_offset |-> ParamOffset(cls, i)]]
        \o [i \in 1..Len(dl) |->
            [valtype |-> dl[i], fp_offset |-> -(1 + n_reg) * 8 + (-8) * (i - 1)]]

ComputeNFrameLocals(ft, dl) ==
    LET cls == Classify(ft.inputs, 0, 0)
    IN  (Len(cls) - CountOf(cls, "stack")) + Len(dl)

\* the prologue: frame, spill of the register parameters, zeroing of locals
RECURSIVE SpillSteps(_, _, _)
SpillSteps(ft, md, i) ==
    IF i > Len(ft.inputs) THEN <<>>
    ELSE (IF md[i].fp_offset > 0 THEN <<>>
          ELSE <<(IF ft.inputs[i] \in IntTypes THEN O(3) ELSE O(4)),
                 AssertC(md[i].fp_offset >= -128), O(1)>>)
         \o SpillSteps(ft, md, i + 1)

PrologueSteps(ft, dl) ==
    LET md == ComputeLocalsMD(ft, dl)
        nfl == ComputeNFrameLocals(ft, dl)
    IN  <<Alloc("locals_md"), O(1), O(3), O(1)>>
        \o (IF nfl # 0 THEN <<O(3), O(4)>> ELSE <<>>)
        \o SpillSteps(ft, md, 1)
        \o (IF Len(dl) = 0 THEN <<>>
            ELSE IF Len(dl) = 1 THEN <<O(8)>>
            ELSE <<O(3), O(3), O(3), O(4), O(1), O(3)>>)

\* the epilogue, after the branch points are fixed
EpilogueSteps(ft, s, nfl) ==
    (IF FUNC_TYPE_N_OUTPUTS(ft) > 0
     THEN <<AssertC(Len(s) = 1), AssertTop(ft.outputs[1]), Pop(FALSE), Od(1, -1)>>
     ELSE <<>>)
    \o (IF nfl # 0 THEN <<O(3), O(4)>> ELSE <<>>)
    \o <<O(1), O(1)>>

\* "fix branch points": the target each branch entry is patched from
FixBranch(b, lbls, n_elts) ==
    LET c == b.continuation_idx
        known == c = FUNC_EXIT_CONT \/ (c >= 0 /\ c < Len(lbls) /\ lbls[c + 1].set)
    IN  [branch_offset |-> b.branch_offset,
         cont |-> c,
         ok |-> known,
         inside |-> b.branch_offset + 5 <= n_elts,
         target |-> IF c = FUNC_EXIT_CONT THEN n_elts
                    ELSE IF known THEN lbls[c + 1].off ELSE 0]

(***************************************************************************)
(* The validated input program.  vstack is the operand stack of the WASM   *)
(* validation algorithm; the instruction handed to the translator next is  *)
(* any instruction that validates there.                                   *)
(***************************************************************************)
Frame(kind, res, vbase) ==
    [kind |-> kind, phase |-> "then", res |-> res, vbase |-> vbase,
     dead |-> FALSE, failed |-> FALSE, n |-> 0, stack_idx |-> 0,
     label_idx |-> 0, output_idx |-> 0, arity |-> 0, else_off |-> 0]

Depth == Len(ctl) - 1
Cur == ctl[Len(ctl)]

\* the operand types a branch to label index L carries
LabelTypes(L) ==
    LET fr == ctl[Len(ctl) - L]
    IN  IF fr.kind = "loop" THEN <<>> ELSE fr.res

Sig(i) ==
    LET op == i.op
        T == IF op \in CmpI64 \cup ArithI64 \cup DivI64 \cup ShiftI64
             THEN "i64" ELSE "i32"
        S(a, b) == [pop |-> a, push |-> b]
    IN
    CASE op \in {"nop", "unreachable"} -> S(<<>>, <<>>)
      [] op = "br" -> S(LabelTypes(i.idx), <<>>)
      [] op = "br_if" -> S(LabelTypes(i.idx) \o <<"i32">>, LabelTypes(i.idx))
      [] op = "br_table" -> S(LabelTypes(i.idx) \o <<"i32">>, <<>>)
      [] op = "return" -> S(type.outputs, <<>>)
      [] op = "call" ->
            S(FuncTypes[i.idx + 1].inputs, FuncTypes[i.idx + 1].outputs)
      [] op = "call_indirect" ->
            S(FuncTypes[i.idx + 1].inputs \o <<"i32">>,
              FuncTypes[i.idx + 1].outputs)
      [] op = "drop" ->
            S(IF vstack = <<>> THEN <<"i32">> ELSE <<Last(vstack)>>, <<>>)
      [] op = "get_local" -> S(<<>>, <<locals_md[i.idx + 1].valtype>>)
      [] op = "set_local" -> S(<<locals_md[i.idx + 1].valtype>>, <<>>)
      [] op = "tee_local" ->
            S(<<locals_md[i.idx + 1].valtype>>, <<locals_md[i.idx + 1].valtype>>)
      [] op = "get_global" -> S(<<>>, <<GlobalTypes[i.idx + 1]>>)
      [] op = "set_global" -> S(<<GlobalTypes[i.idx + 1]>>, <<>>)
      [] op \in Loads -> S(<<"i32">>, <<AccessType(op)>>)
      [] op \in Stores -> S(<<"i32", AccessType(op)>>, <<>>)
      [] op = "i32.const" -> S(<<>>, <<"i32">>)
      [] op = "i64.const" -> S(<<>>, <<"i64">>)
      [] op = "f64.const" -> S(<<>>, <<"f64">>)
      [] op = "f32.const" -> S(<<>>, <<"f32">>)
      [] op = "i32.eqz" -> S(<<"i32">>, <<"i32">>)
      [] op \in CmpI32 \cup CmpI64 -> S(<<T, T>>, <<"i32">>)
      [] op \in CmpF64 -> S(<<"f64", "f64">>, <<"i32">>)
      [] op \in ArithI32 \cup ArithI64 \cup DivI32 \cup DivI64
                \cup ShiftI32 \cup ShiftI64 -> S(<<T, T>>, <<T>>)
      [] op = "i64.xor" -> S(<<"i64", "i64">>, <<"i64">>)
      [] op = "f64.neg" -> S(<<"f64">>, <<"f64">>)
      [] op \in ArithF64 -> S(<<"f64", "f64">>, <<"f64">>)
      [] op = "i32.wrap_i64" -> S(<<"i64">>, <<"i32">>)
      [] op \in {"i32.trunc_u_f64", "i32.trunc_s_f64"} -> S(<<"f64">>, <<"i32">>)
      [] op \in {"i64.extend_s_i32", "i64.extend_u_i32"} -> S(<<"i32">>, <<"i64">>)
      [] op \in {"f64.convert_s_i32", "f64.convert_u_i32"} ->
            S(<<"i32">>, <<"f64">>)
      [] op = "i64.reinterpret_f64" -> S(<<"f64">>, <<"i64">>)
      [] op = "f64.reinterpret_i64" -> S(<<"i64">>, <<"f64">>)

PlainOps ==
    {"nop", "unreachable", "return", "drop", "i32.const", "i64.const",
     "f64.const", "i32.eqz", "f64.neg", "i32.wrap_i64", "i32.trunc_u_f64",
     "i32.trunc_s_f64", "i64.extend_s_i32", "i64.extend_u_i32",
     "f64.convert_s_i32", "f64.convert_u_i32", "i64.reinterpret_f64",
     "f64.reinterpret_i64"}
    \cup CmpI32 \cup CmpI64 \cup CmpF64 \cup ArithI32 \cup ArithI64
    \cup DivI32 \cup DivI64 \cup ShiftI32 \cup ShiftI64 \cup ArithF64
    \cup Loads \cup Stores \cup Unsupported

MaxBrTable == 1     \* labels in a br_table besides the default

Candidates ==
    {Instr(op) : op \in PlainOps}
    \cup {[Instr(op) EXCEPT !.idx = k] :
            op \in {"get_local", "set_local", "tee_local"},
            k \in 0..(Len(locals_md) - 1)}
    \cup {[Instr(op) EXCEPT !.idx = k] :
            op \in {"get_global", "set_global"}, k \in 0..(Len(GlobalTypes) - 1)}
    \cup {[Instr(op) EXCEPT !.idx = k] :
            op \in {"call", "call_indirect"}, k \in 0..(Len(FuncTypes) - 1)}
    \cup {[Instr(op) EXCEPT !.idx = k] : op \in {"br", "br_if"}, k \in 0..Depth}
    \cup {[Instr("br_table") EXCEPT !.idx = k, !.ls = l] :
            k \in 0..Depth,
            l \in UNION {[1..n -> 0..Depth] : n \in 0..MaxBrTable}}

Valid(i) ==
    LET sg == Sig(i)
    IN  /\ Len(vstack) - Cur.vbase >= Len(sg.pop)
        /\ Suffix(vstack, Len(sg.pop)) = sg.pop
        /\ i.op = "br_table" =>
              \A k \in 1..Len(i.ls) : LabelTypes(i.ls[k]) = LabelTypes(i.idx)

AfterValid(i) ==
    SubSeq(vstack, 1, Len(vstack) - Len(Sig(i).pop)) \o Sig(i).push

GarbageFor(op) ==
    IF op \in {"br", "br_if", "br_table"} THEN LabelGarbage
    ELSE IF op = "call_indirect" THEN IdxGarbage
    ELSE {NoGarbage}

(***************************************************************************)
(* Running a handler on the current tables.                                *)
(***************************************************************************)
StartSt(f, g) ==
    [sstack |-> sstack, labels |-> labels, branches |-> branches,
     memrefs |-> memrefs, outN |-> outN, addrImms |-> addrImms,
     constImms |-> constImms, heap |-> heap, rsp |-> 0,
     phys |-> n_frame_locals + ValueCount(sstack), clob |-> FALSE,
     calls |-> <<>>, res |-> "run", c |-> 0, f |-> f, ignored |-> FALSE,
     nd |-> ndebug, g |-> g]

\* the runs of a handler: without an allocation failure (f = 0), or with the
\* f-th allocator call of the handler failing
Runs(ops, g) ==
    LET clean == {[f |-> 0, r |-> Exec(ops, StartSt(0, g))]}
    IN  clean
        \cup (IF nfail < MaxFail
              THEN UNION {{[f |-> f, r |-> Exec(ops, StartSt(f, g))] :
                             f \in 1..x.r.c} : x \in clean}
              ELSE {})

Commit(r) ==
    /\ sstack' = r.sstack
    /\ labels' = r.labels
    /\ branches' = r.branches
    /\ memrefs' = r.memrefs
    /\ outN' = r.outN
    /\ addrImms' = r.addrImms
    /\ constImms' = r.constImms
    /\ heap' = r.heap

\* "goto error" ends in assert(0); with NDEBUG the handler returns 0, which
\* wasmjit_compile_instructions passes up and the block / loop / if handlers
\* drop
ErrorReturns(r) == r.res = "error" /\ ndebug

PcAfter(r, level) ==
    CASE r.res = "run" -> "body"
      [] r.res = "abort" -> "aborted"
      [] r.res = "crash" -> "crashed"
      [] r.res = "error" ->
            IF ~ndebug THEN "aborted"
            ELSE IF level = 0 THEN "failed" ELSE "body"

MarkFailed(c) == [c EXCEPT ![Len(c)].failed = TRUE]
Count(c) == [c EXCEPT ![Len(c)].n = Min(@ + 1, 1)]

FlagsAfter(r, op, level) ==
    [unsup |-> flags.unsup \/ (op \in Unsupported /\ r.res = "run"),
     nested |-> flags.nested \/ (ErrorReturns(r) /\ level > 0),
     ignored |-> flags.ignored \/ r.ignored]

\* the case label of the switch an opcode is handled under
Kind(op) ==
    CASE op \in CmpI32 -> "i32.cmp"
      [] op \in CmpI64 -> "i64.cmp"
      [] op \in ArithI32 \ {"i32.mul"} -> "i32.arith"
      [] op \in ArithI64 \ {"i64.mul"} -> "i64.arith"
      [] op \in DivI32 -> "i32.div"
      [] op \in DivI64 -> "i64.div"
      [] op \in ShiftI32 \ {"i32.shl"} -> "i32.shr"
      [] op \in ShiftI64 \ {"i64.shl"} -> "i64.shr"
      [] op \in CmpF64 -> "f64.cmp"
      [] op \in ArithF64 -> "f64.arith"
      [] op \in Unsupported -> "default"
      [] OTHER -> op

Effect(op, r, f) ==
    [op |-> Kind(op), dRsp |-> r.rsp, clob |-> r.clob,
     dVal |-> ValueCount(r.sstack) - ValueCount(sstack),
     ok |-> r.res = "run" /\ f = 0 /\ op \notin ControlOps \cup Unsupported,
     calls |-> r.calls]

NoEffect(op) ==
    [op |-> op, dRsp |-> 0, clob |-> FALSE, dVal |-> 0, ok |-> FALSE,
     calls |-> <<>>]

CanTranslate ==
    /\ pc = "body"
    /\ ~Cur.dead
    /\ ~Cur.failed
    /\ ninstr < MaxInstr

(***************************************************************************)
(* wasmjit_compile_function up to the body.                                *)
(***************************************************************************)
Prologue ==
    /\ pc = "start"
    /\ \E x \in Runs(PrologueSteps(type, decl), NoGarbage) :
          /\ Commit(x.r)
          /\ pc' = PcAfter(x.r, 0)
          /\ nfail' = nfail + (IF x.f > 0 THEN 1 ELSE 0)
    /\ locals_md' = ComputeLocalsMD(type, decl)
    /\ n_frame_locals' = ComputeNFrameLocals(type, decl)
    /\ last' = NoEffect("prologue")
    /\ UNCHANGED <<ndebug, type, decl, ctl, vstack, ninstr, flags, rspCells,
                   rspOk, straight, patch, mx>>

(***************************************************************************)
(* wasmjit_compile_instruction for every opcode but block, loop and if.    *)
(***************************************************************************)
StepIn(cands) ==
    /\ CanTranslate
    /\ \E i \in cands :
          /\ Valid(i)
          /\ \E g \in GarbageFor(i.op) :
             \E x \in Runs(Steps(i, sstack, locals_md, type,
                                 n_frame_locals, g), g) :
                /\ Commit(x.r)
                /\ pc' = PcAfter(x.r, Depth)
                /\ nfail' = nfail + (IF x.f > 0 THEN 1 ELSE 0)
                /\ flags' = FlagsAfter(x.r, i.op, Depth)
                /\ ctl' = IF x.r.res = "run"
                          THEN [Count(ctl) EXCEPT
                                  ![Len(ctl)].dead = i.op \in Transfers]
                          ELSE IF ErrorReturns(x.r) /\ Depth > 0
                          THEN MarkFailed(Count(ctl))
                          ELSE ctl
                /\ vstack' = IF x.r.res = "run" THEN AfterValid(i) ELSE vstack
                /\ straight' = (straight /\ i.op \notin ControlOps)
                /\ rspCells' = IF straight /\ i.op \notin ControlOps
                               THEN rspCells + x.r.rsp ELSE 0
                /\ rspOk' = (rspOk /\ ~x.r.clob)
                /\ last' = Effect(i.op, x.r, x.f)
    /\ ninstr' = ninstr + 1
    /\ UNCHANGED <<ndebug, type, decl, locals_md, n_frame_locals, patch, mx>>

Step == StepIn(Candidates)

(***************************************************************************)
(* case OPCODE_BLOCK / OPCODE_LOOP, up to the call that translates the     *)
(* body.                                                                   *)
(***************************************************************************)
BlockTypes == {"", "i32"}

EnterBlock ==
    /\ CanTranslate
    /\ Depth < MaxDepth
    /\ \E kind \in {"block", "loop"}, bt \in BlockTypes :
          LET arity == IF bt # "" THEN 1 ELSE 0
              ops == <<LabelGrow, Slot(arity, Len(labels))>>
              fr == [Frame(kind, IF bt = "" THEN <<>> ELSE <<bt>>, Len(vstack))
                       EXCEPT !.stack_idx = Len(sstack),
                              !.label_idx = Len(labels),
                              !.output_idx = outN,
                              !.arity = arity]
          IN  \E x \in Runs(ops, NoGarbage) :
                /\ Commit(x.r)
                /\ pc' = PcAfter(x.r, Depth)
                /\ nfail' = nfail + (IF x.f > 0 THEN 1 ELSE 0)
                /\ flags' = FlagsAfter(x.r, kind, Depth)
                /\ ctl' = IF x.r.res = "run" THEN Append(Count(ctl), fr)
                          ELSE IF ErrorReturns(x.r) /\ Depth > 0
                          THEN MarkFailed(Count(ctl))
                          ELSE ctl
                /\ last' = NoEffect(kind)
    /\ ninstr' = ninstr + 1
    /\ straight' = FALSE
    /\ rspCells' = 0
    /\ UNCHANGED <<ndebug, type, decl, locals_md, n_frame_locals, vstack,
                   rspOk, patch, mx>>

(***************************************************************************)
(* case OPCODE_IF, up to the call that translates the then-body.           *)
(***************************************************************************)
EnterIf ==
    /\ CanTranslate
    /\ Depth < MaxDepth
    /\ Len(vstack) - Cur.vbase >= 1
    /\ Last(vstack) = "i32"
    /\ \E bt \in BlockTypes :
          LET arity == IF bt # "" THEN 1 ELSE 0
              ops == <<AssertTop("i32"), Pop(FALSE), Od(1, -1), O(2), O(6),
                       LabelGrow, Slot(arity, Len(labels))>>
          IN  \E x \in Runs(ops, NoGarbage) :
                /\ Commit(x.r)
                /\ pc' = PcAfter(x.r, Depth)
                /\ nfail' = nfail + (IF x.f > 0 THEN 1 ELSE 0)
                /\ flags' = FlagsAfter(x.r, "if", Depth)
                /\ ctl' = IF x.r.res = "run"
                          THEN Append(Count(ctl),
                                  [Frame("if", IF bt = "" THEN <<>> ELSE <<bt>>,
                                         Len(vstack) - 1)
                                     EXCEPT !.stack_idx = Len(x.r.sstack) - 1,
                                            !.label_idx = Len(x.r.labels) - 1,
                                            !.output_idx = x.r.outN,
                                            !.arity = arity,
                                            !.else_off = x.r.outN - 4])
                          ELSE IF ErrorReturns(x.r) /\ Depth > 0
                          THEN MarkFailed(Count(ctl))
                          ELSE ctl
                /\ last' = NoEffect("if")
    /\ vstack' = Front(vstack)
    /\ ninstr' = ninstr + 1
    /\ straight' = FALSE
    /\ rspCells' = 0
    /\ UNCHANGED <<ndebug, type, decl, locals_md, n_frame_locals, rspOk,
                   patch, mx>>

\* the body of the innermost construct has been handed over completely
BodyOver ==
    /\ pc = "body"
    /\ Depth > 0
    /\ \/ Cur.dead
       \/ Cur.failed
       \/ vstack = SubSeq(vstack, 1, Cur.vbase) \o Cur.res

(***************************************************************************)
(* case OPCODE_IF between the then-body and the else-body                  *)
(* (n_instructions_else # 0): the jump over the else-body, the fix-up of   *)
(* the jump to it.                                                         *)
(***************************************************************************)
Else ==
    /\ BodyOver
    /\ Cur.kind = "if"
    /\ Cur.phase = "then"
    /\ ninstr < MaxInstr
    /\ \E x \in Runs(<<O(5)>>, NoGarbage) :
          /\ Commit(x.r)
          /\ pc' = PcAfter(x.r, Depth - 1)
          /\ nfail' = nfail + (IF x.f > 0 THEN 1 ELSE 0)
          /\ flags' = FlagsAfter(x.r, "else", Depth - 1)
          /\ ctl' = IF x.r.res = "run"
                    THEN [ctl EXCEPT ![Len(ctl)].phase = "else",
                                     ![Len(ctl)].dead = FALSE,
                                     ![Len(ctl)].failed = FALSE,
                                     ![Len(ctl)].n = 0]
                    ELSE IF ErrorReturns(x.r) /\ Depth - 1 > 0
                    THEN MarkFailed(Front(ctl))
                    ELSE ctl
    /\ vstack' = SubSeq(vstack, 1, Cur.vbase)
    /\ last' = NoEffect("else")
    /\ UNCHANGED <<ndebug, type, decl, locals_md, n_frame_locals, ninstr,
                   rspCells, rspOk, straight, patch, mx>>

(***************************************************************************)
(* The rest of the block / loop / if handler, after its body: the shift of *)
(* the results over the label slot and the label's continuation.  The      *)
(* result of translating the body is not looked at.                        *)
(***************************************************************************)
\* labels->elts[label_idx]: output->n_elts for block and if, output_idx for
\* loop
Continuation(kind, output_idx, n_elts) ==
    IF kind = "loop" THEN output_idx ELSE n_elts

Stale(u) == IF u = "label" THEN LabelSlot(0, 0) ELSE Value("i32")

ShiftResults(s, stack_idx, arity, u) ==
    IF Len(s) >= stack_idx + arity
    THEN SubSeq(s, 1, stack_idx) \o Suffix(s, arity)
    ELSE [k \in 1..(stack_idx + arity) |->
            IF k <= Len(s) /\ k <= stack_idx THEN s[k] ELSE Stale(u)]

End ==
    /\ BodyOver
    /\ Cur.kind = "if" /\ Cur.phase = "then" => Cur.res = <<>>
    /\ Cur.kind = "if" /\ Cur.phase = "else" => Cur.n > 0
    /\ \E u \in IF Len(sstack) >= Cur.stack_idx + Cur.arity
                THEN {"i32"} ELSE {"crash", "i32", "label"} :
          /\ pc' = IF u = "crash" THEN "crashed" ELSE "body"
          /\ sstack' = ShiftResults(sstack, Cur.stack_idx, Cur.arity, u)
    /\ labels' = [labels EXCEPT ![Cur.label_idx + 1] =
                    [set |-> TRUE,
                     off |-> Continuation(Cur.kind, Cur.output_idx, outN)]]
    /\ ctl' = Front(ctl)
    /\ vstack' = SubSeq(vstack, 1, Cur.vbase) \o Cur.res
    /\ last' = NoEffect("end")
    /\ UNCHANGED <<ndebug, type, decl, locals_md, n_frame_locals, branches,
                   memrefs, outN, addrImms, constImms, heap, ninstr, nfail,
                   flags, rspCells, rspOk, straight, patch, mx>>

(***************************************************************************)
(* wasmjit_compile_function after the body: fix branch points, epilogue.   *)
(***************************************************************************)
Finish ==
    /\ pc = "body"
    /\ Depth = 0
    /\ Cur.dead \/ vstack = type.outputs
    /\ patch' = [k \in 1..Len(branches) |-> FixBranch(branches[k], labels, outN)]
    /\ \E x \in Runs(EpilogueSteps(type, sstack, n_frame_locals), NoGarbage) :
          /\ Commit(x.r)
          /\ pc' = IF x.r.res = "run" THEN "done" ELSE PcAfter(x.r, 0)
          /\ nfail' = nfail + (IF x.f > 0 THEN 1 ELSE 0)
    /\ last' = NoEffect("epilogue")
    /\ UNCHANGED <<ndebug, type, decl, locals_md, n_frame_locals, ctl, vstack,
                   ninstr, flags, rspCells, rspOk, straight, mx>>

MxIdle == [pc |-> "idle"]

Init ==
    /\ pc = "start"
    /\ ndebug \in BOOLEAN
    /\ type \in Range(FuncTypes)
    /\ decl \in LocalDecls
    /\ locals_md = <<>>
    /\ n_frame_locals = 0
    /\ sstack = <<>>
    /\ labels = <<>>
    /\ branches = <<>>
    /\ memrefs = <<>>
    /\ outN = 0
    /\ addrImms = <<>>
    /\ constImms = <<>>
    /\ heap = {}
    /\ ctl = <<Frame("func", type.outputs, 0)>>
    /\ vstack = <<>>
    /\ ninstr = 0
    /\ nfail = 0
    /\ flags = [unsup |-> FALSE, nested |-> FALSE, ignored |-> FALSE]
    /\ rspCells = 0
    /\ rspOk = TRUE
    /\ straight = TRUE
    /\ last = NoEffect("")
    /\ patch = <<>>
    /\ mx = MxIdle

Next ==
    \/ Prologue
    \/ Step
    \/ EnterBlock
    \/ EnterIf
    \/ Else
    \/ End
    \/ Finish

Spec == Init /\ [][Next]_vars

(***************************************************************************)
(* The machine code of one load or store, as the OUTS / OUTB calls of the  *)
(* handler emit it, and an x86_64 machine running it.  Addresses are byte  *)
(* offsets into the memory's data buffer of mx.size bytes; the operand     *)
(* stack holds the address (and, for a store, the value above it).         *)
(***************************************************************************)
MaxMem == 10        \* largest memory size in bytes
MinMem == 8         \* smallest memory size in bytes
MemOffsets == {0, 1}

\* the width in bytes of the access instruction the handler emits
AccessWidth(op) ==
    CASE op \in {"i32.load8_s", "i32.store8"} -> 1     \* movsbl / movb
      [] op = "i32.store16" -> 2                       \* movw
      [] op \in {"i32.load", "i32.store"} -> 4         \* movl
      [] OTHER -> 8                                    \* movq

MemCode(i) ==
    (IF i.op \in Stores THEN <<[m |-> "pop", a |-> "rdi"]>> ELSE <<>>)
    \o <<[m |-> "pop", a |-> "rsi"]>>
    \o (IF 4 + i.off # 0 THEN <<[m |-> "add", a |-> 4 + i.off]>> ELSE <<>>)
    \o <<[m |-> "movabs", a |-> "mem"],
         [m |-> "field", a |-> "size"],
         [m |-> "cmp", a |-> 0],
         [m |-> "jle", a |-> 2],          \* 7e 02: over the two bytes of int
         [m |-> "int", a |-> 4],
         [m |-> "movabs", a |-> "mem"],
         [m |-> "field", a |-> "data"],
         [m |-> "access", a |-> AccessWidth(i.op)]>>
    \o (IF i.op \in Loads THEN <<[m |-> "push", a |-> "rax"]>> ELSE <<>>)

MxStart(i, size, addr) ==
    [pc |-> "run", op |-> i.op, off |-> i.off, code |-> MemCode(i), ip |-> 1,
     size |-> size, addr |-> addr,
     stack |-> IF i.op \in Stores THEN <<addr, 0>> ELSE <<addr>>,
     rsi |-> 0, rdi |-> 0, rax |-> 0, le |-> FALSE,
     trapped |-> FALSE, touched |-> {}]

MxAt(m) == mx.pc = "run" /\ mx.ip <= Len(mx.code) /\ mx.code[mx.ip].m = m
MxArg == mx.code[mx.ip].a
MxFall(m) == [m EXCEPT !.ip = @ + 1,
                       !.pc = IF m.ip + 1 > Len(m.code) THEN "end" ELSE "run"]

\* pop %rdi / pop %rsi
MxPop ==
    /\ MxAt("pop")
    /\ mx' = MxFall([mx EXCEPT ![MxArg] = Last(mx.stack),
                               !.stack = Front(mx.stack)])
    /\ UNCHANGED compVars

\* add $imm32, %rsi
MxAdd ==
    /\ MxAt("add")
    /\ mx' = MxFall([mx EXCEPT !.rsi = @ + MxArg])
    /\ UNCHANGED compVars

\* movq $const, %rax: the placeholder, patched to the address of the MemInst
MxMovabs ==
    /\ MxAt("movabs")
    /\ mx' = MxFall([mx EXCEPT !.rax = 0])
    /\ UNCHANGED compVars

\* mov size_offset(%rax), %rax / mov data_off(%rax), %rax
MxField ==
    /\ MxAt("field")
    /\ mx' = MxFall([mx EXCEPT !.rax = IF MxArg = "size" THEN mx.size ELSE 0])
    /\ UNCHANGED compVars

\* cmp %rax, %rsi
MxCmp ==
    /\ MxAt("cmp")
    /\ mx' = MxFall([mx EXCEPT !.le = mx.rsi <= mx.rax])
    /\ UNCHANGED compVars

\* jle AFTER_TRAP
MxJle ==
    /\ MxAt("jle")
    /\ mx' = IF mx.le THEN [mx EXCEPT !.ip = @ + 2] ELSE MxFall(mx)
    /\ UNCHANGED compVars

\* int $4
MxInt ==
    /\ MxAt("int")
    /\ mx' = [mx EXCEPT !.pc = "trap", !.trapped = TRUE]
    /\ UNCHANGED compVars

\* the access at -4(%rax, %rsi), %rax holding the start of the data buffer
MxAccess ==
    /\ MxAt("access")
    /\ mx' = MxFall([mx EXCEPT
                       !.touched = {mx.rax + mx.rsi - 4 + b : b \in 0..(MxArg - 1)}])
    /\ UNCHANGED compVars

\* push %rax
MxPush ==
    /\ MxAt("push")
    /\ mx' = MxFall([mx EXCEPT !.stack = Append(@, 0)])
    /\ UNCHANGED compVars

InitMem ==
    /\ pc = "start"
    /\ ndebug = FALSE
    /\ type = FuncTypes[1]
    /\ decl = <<>>
    /\ locals_md = <<>>
    /\ n_frame_locals = 0
    /\ sstack = <<>>
    /\ labels = <<>>
    /\ branches = <<>>
    /\ memrefs = <<>>
    /\ outN = 0
    /\ addrImms = <<>>
    /\ constImms = <<>>
    /\ heap = {}
    /\ ctl = <<Frame("func", type.outputs, 0)>>
    /\ vstack = <<>>
    /\ ninstr = 0
    /\ nfail = 0
    /\ flags = [unsup |-> FALSE, nested |-> FALSE, ignored |-> FALSE]
    /\ rspCells = 0
    /\ rspOk = TRUE
    /\ straight = TRUE
    /\ last = NoEffect("")
    /\ patch = <<>>
    /\ \E op \in Loads \cup Stores, off \in MemOffsets, size \in MinMem..MaxMem :
       \E addr \in 0..size :
          mx = MxStart([Instr(op) EXCEPT !.off = off], size, addr)

NextMem ==
    \/ MxPop
    \/ MxAdd
    \/ MxMovabs
    \/ MxField
    \/ MxCmp
    \/ MxJle
    \/ MxInt
    \/ MxAccess
    \/ MxPush

SpecMem == InitMem /\ [][NextMem]_vars

(***************************************************************************)
(* Code offsets of full width.  A size_t offset is kept as h * 2^16 + l    *)
(* with 0 <= l < 2^16, so that offsets beyond 2^31 and the truncation of   *)
(* a difference to 32 bits can be written down.                            *)
(***************************************************************************)
Half == 2^16

Wide(h, l) == [h |-> h + (l \div Half), l |-> l % Half]
WInt(n) == Wide(0, n)
WSub(a, b) == Wide(a.h - b.h, a.l - b.l)
WAdd(a, b) == Wide(a.h + b.h, a.l + b.l)
WLeq(a, b) == a.h < b.h \/ (a.h = b.h /\ a.l <= b.l)

\* the value fits int32_t
FitsInt32(a) == a.h >= -(Half \div 2) /\ a.h < Half \div 2
\* (uint32_t) a: the low 32 bits
ToUint32(a) == [h |-> a.h % Half, l |-> a.l]
\* the rel32 operand as the processor reads it: sign-extended
SignExtend32(u) == IF u.h >= Half \div 2 THEN [h |-> u.h - Half, l |-> u.l] ELSE u

\* the compiler's own variables, at rest while a part is looked at closely
AtRest ==
    /\ pc = "start"
    /\ ndebug = FALSE
    /\ locals_md = <<>>
    /\ n_frame_locals = 0
    /\ sstack = <<>>
    /\ labels = <<>>
    /\ branches = <<>>
    /\ memrefs = <<>>
    /\ outN = 0
    /\ addrImms = <<>>
    /\ constImms = <<>>
    /\ heap = {}
    /\ ctl = <<Frame("func", type.outputs, 0)>>
    /\ vstack = <<>>
    /\ ninstr = 0
    /\ nfail = 0
    /\ flags = [unsup |-> FALSE, nested |-> FALSE, ignored |-> FALSE]
    /\ rspCells = 0
    /\ rspOk = TRUE
    /\ straight = TRUE
    /\ last = NoEffect("")
    /\ patch = <<>>

Idle ==
    /\ type = FuncTypes[1]
    /\ decl = <<>>
    /\ AtRest

(***************************************************************************)
(* "fix branch points" on a code buffer of any size: the loop of           *)
(* wasmjit_compile_function over the Branch Table, one entry per step, and *)
(* the return that follows the epilogue.                                   *)
(***************************************************************************)
MaxBranches == 2    \* entries of the Branch Table

\* code offsets around the limits of a 32-bit displacement
FixOffsets ==
    {WInt(0), WInt(16), Wide(Half \div 2, 0), Wide(Half \div 2, 32),
     Wide(Half, 0), Wide(Half, 64)}

\* uint32_t rel = continuation_offset - branch->branch_offset - sizeof(buf)
FixRel(b, lbls, n_elts) ==
    LET continuation_offset ==
            IF b.continuation_idx = FUNC_EXIT_CONT THEN n_elts
            ELSE lbls[b.continuation_idx + 1]
        full == WSub(WSub(continuation_offset, b.branch_offset), WInt(5))
    IN  [branch_offset |-> b.branch_offset,
         target |-> continuation_offset,
         full |-> full,
         rel |-> ToUint32(full)]

FixBranchPoint ==
    /\ mx.pc = "fix"
    /\ mx.i < Len(mx.branches)
    /\ mx' = [mx EXCEPT
                !.i = @ + 1,
                !.patched = Append(@, FixRel(mx.branches[mx.i + 1], mx.labels,
                                             mx.n_elts))]
    /\ UNCHANGED compVars

\* the loop is over: epilogue, return output->elts
FixReturn ==
    /\ mx.pc = "fix"
    /\ mx.i = Len(mx.branches)
    /\ mx' = [mx EXCEPT !.pc = "returned"]
    /\ UNCHANGED compVars

InitFix ==
    /\ Idle
    /\ \E n_elts \in FixOffsets, lbl \in FixOffsets, n \in 1..MaxBranches :
       \E bs \in [1..n -> [branch_offset : FixOffsets,
                           continuation_idx : {0, FUNC_EXIT_CONT}]] :
          /\ WLeq(lbl, n_elts)
          /\ \A k \in 1..n : WLeq(WAdd(bs[k].branch_offset, WInt(5)), n_elts)
          /\ mx = [pc |-> "fix", i |-> 0, branches |-> bs, labels |-> <<lbl>>,
                   n_elts |-> n_elts, patched |-> <<>>]

NextFix ==
    \/ FixBranchPoint
    \/ FixReturn

SpecFix == InitFix /\ [][NextFix]_vars

(***************************************************************************)
(* The locals_md block of wasmjit_compile_function on its own, for any     *)
(* parameter list.                                                         *)
(***************************************************************************)
MaxParams == 10     \* parameters of the function type
MaxLocals == 2      \* declared locals

LayoutTypes ==
    UNION {{[inputs |-> ins, outputs |-> <<>>] :
              ins \in UNION {[1..n -> {a, b}] : n \in 0..MaxParams}} :
           a \in IntTypes, b \in FloatTypes}

LayOut ==
    /\ pc = "start"
    /\ pc' = "laid"
    /\ locals_md' = ComputeLocalsMD(type, decl)
    /\ n_frame_locals' = ComputeNFrameLocals(type, decl)
    /\ UNCHANGED <<ndebug, type, decl, sstack, labels, branches, memrefs, outN,
                   addrImms, constImms, heap, ctl, vstack, ninstr, nfail, flags,
                   rspCells, rspOk, straight, last, patch, mx>>

InitLayout ==
    /\ type \in LayoutTypes
    /\ decl \in {Rep(t, n) : t \in {"i32", "f64"}, n \in 0..MaxLocals}
    /\ AtRest
    /\ mx = MxIdle

NextLayout ==
    \/ LayOut

SpecLayout == InitLayout /\ [][NextLayout]_vars

(***************************************************************************)
(* What the code emitted for the constants and for i64.extend_u_i32 does   *)
(* to the 8-byte cells of the run-time stack.  A cell is its two 32-bit    *)
(* words, each a pair of 16-bit halves; val is the WebAssembly value the   *)
(* cell stands for.                                                        *)
(***************************************************************************)
MaxCells == 2       \* cells on the run-time stack

Zero32 == WInt(0)
Ones32 == Wide(Half - 1, Half - 1)
CellWords == {Zero32, WInt(1), Wide(Half \div 2 - 1, Half - 1),
              Wide(Half \div 2, 0), Ones32}

\* "\x68" imm32: push sign-extends its 32-bit immediate to 64 bits
PushImm32(v) ==
    [type |-> "i32", hi |-> IF v.h >= Half \div 2 THEN Ones32 ELSE Zero32,
     lo |-> v, val |-> [hi |-> Zero32, lo |-> v]]

\* "\x48\xb8" imm64 "\x50": movabs $value, %rax ; push %rax
PushImm64(h, l) ==
    [type |-> "i64", hi |-> h, lo |-> l, val |-> [hi |-> h, lo |-> l]]

CellI32Const ==
    /\ mx.pc = "cells"
    /\ Len(mx.cells) < MaxCells
    /\ \E v \in CellWords :
          mx' = [mx EXCEPT !.cells = Append(@, PushImm32(v))]
    /\ UNCHANGED compVars

CellI64Const ==
    /\ mx.pc = "cells"
    /\ Len(mx.cells) < MaxCells
    /\ \E h \in {Zero32, Ones32}, l \in {Zero32, Ones32} :
          mx' = [mx EXCEPT !.cells = Append(@, PushImm64(h, l))]
    /\ UNCHANGED compVars

\* no code: the slot is retyped and the cell is left as it is
CellExtendU ==
    /\ mx.pc = "cells"
    /\ mx.cells # <<>>
    /\ Last(mx.cells).type = "i32"
    /\ mx' = [mx EXCEPT !.cells = Append(Front(@),
                  [Last(@) EXCEPT !.type = "i64"])]
    /\ UNCHANGED compVars

\* add $8, %rsp
CellDrop ==
    /\ mx.pc = "cells"
    /\ mx.cells # <<>>
    /\ mx' = [mx EXCEPT !.cells = Front(@)]
    /\ UNCHANGED compVars

InitCells == Idle /\ mx = [pc |-> "cells", cells |-> <<>>]

NextCells ==
    \/ CellI32Const
    \/ CellI64Const
    \/ CellExtendU
    \/ CellDrop

SpecCells == InitCells /\ [][NextCells]_vars

(***************************************************************************)
(* The argument loop of call / call_indirect and what its code does at run *)
(* time.  cells is the run-time stack from %rsp upwards: the number of an  *)
(* argument, PadCell for the alignment pad, JunkCell for any location that *)
(* is not one of these.  reads[i] is the cell the code emitted for input i *)
(* loads or pushes.                                                        *)
(***************************************************************************)
PadCell == 0
JunkCell == -1

Reverse(s) == [k \in 1..Len(s) |-> s[Len(s) + 1 - k]]

\* the cell at N(%rsp), N = 8 * cell
CellAt(cells, cell) ==
    IF cell >= 0 /\ cell < Len(cells) THEN cells[cell + 1] ELSE JunkCell

ArgsStart(ft, aligned) ==
    [pc |-> "args", ft |-> ft, aligned |-> aligned, i |-> 0, n_stack |-> 0,
     cls |-> Classify(ft.inputs, 0, 0),
     cells |-> Rep(PadCell, aligned) \o Reverse([k \in 1..Len(ft.inputs) |-> k]),
     reads |-> <<>>]

\* mov / movss / movsd N(%rsp), reg
ArgMov ==
    /\ mx.pc = "args"
    /\ mx.i < Len(mx.ft.inputs)
    /\ mx.cls[mx.i + 1] # "stack"
    /\ LET stack_offset == Len(mx.ft.inputs) - mx.i - 1 + mx.n_stack + mx.aligned
       IN  mx' = [mx EXCEPT !.i = @ + 1,
                            !.reads = Append(@, CellAt(mx.cells, stack_offset))]
    /\ UNCHANGED compVars

\* push N(%rsp)
ArgPush ==
    /\ mx.pc = "args"
    /\ mx.i < Len(mx.ft.inputs)
    /\ mx.cls[mx.i + 1] = "stack"
    /\ LET stack_offset == mx.i - (Len(mx.ft.inputs) - 1) + mx.n_stack + mx.aligned
           got == CellAt(mx.cells, stack_offset)
       IN  mx' = [mx EXCEPT !.i = @ + 1,
                            !.n_stack = @ + 1,
                            !.reads = Append(@, got),
                            !.cells = <<got>> \o @]
    /\ UNCHANGED compVars

\* call *%rax
ArgCall ==
    /\ mx.pc = "args"
    /\ mx.i = Len(mx.ft.inputs)
    /\ mx' = [mx EXCEPT !.pc = "called"]
    /\ UNCHANGED compVars

InitArgs ==
    /\ Idle
    /\ \E ft \in LayoutTypes, aligned \in {0, 1} : mx = ArgsStart(ft, aligned)

NextArgs ==
    \/ ArgMov
    \/ ArgPush
    \/ ArgCall

SpecArgs == InitArgs /\ [][NextArgs]_vars

(***************************************************************************)
(* The br_table handler byte by byte.  out is the output buffer; a         *)
(* fragment (the code emit_br_code appends for one label) is kept only as  *)
(* its length.  Run reads back what the processor computes from the        *)
(* emitted bytes.                                                          *)
(***************************************************************************)
MaxTable == 2       \* n_labelidxs

\* lengths of a fragment of emit_br_code: the jmp alone, or add + jmp
FragLens == {5, 12}

\* OUTS(str): output_buf(output, str, strlen(str))
StrLen(lit) ==
    IF \E k \in 1..Len(lit) : lit[k] = 0
    THEN (CHOOSE k \in 1..Len(lit) :
             lit[k] = 0 /\ \A j \in 1..(k - 1) : lit[j] # 0) - 1
    ELSE Len(lit)

OUTS(out, lit) == out \o SubSeq(lit, 1, StrLen(lit))

LE32(v) == <<v % 256, (v \div 256) % 256, (v \div 65536) % 256, v \div 16777216>>

\* encode_le_uint32_t(v, &output->elts[at])
PutLE32(out, at, v) ==
    [k \in 1..Len(out) |->
        IF k > at /\ k <= at + 4 THEN LE32(v)[k - at] ELSE out[k]]

\* the little-endian 32-bit value at offset at
GetLE32(out, at) ==
    out[at + 1] + 256 * out[at + 2] + 65536 * out[at + 3] + 16777216 * out[at + 4]

PopRax == <<88>>
CmpEax == <<72, 61>>
Jae == <<15, 131, 144, 144, 144, 144>>
LeaRdx == <<72, 141, 21, 9, 0, 0, 0>>
MovsxlRax == <<72, 99, 4, 130>>
AddRdxRax == <<72, 1, 208>>
JmpRax == <<255, 224>>
Nops4 == <<144, 144, 144, 144>>
JmpRel32 == <<233, 144, 144, 144, 144>>

\* pop, cmp, jae, lea, movsxl, add, jmp, and the table of nops
TblDispatch ==
    /\ mx.pc = "dispatch"
    /\ LET n == Len(mx.frags)
           o1 == OUTS(mx.out, PopRax)
           o2 == OUTS(o1, CmpEax) \o LE32(n)
           o3 == OUTS(o2, Jae)
           o4 == OUTS(o3, LeaRdx)
           o5 == OUTS(OUTS(OUTS(o4, MovsxlRax), AddRdxRax), JmpRax)
           RECURSIVE Table(_, _)
           Table(o, k) == IF k = 0 THEN o ELSE Table(OUTS(o, Nops4), k - 1)
       IN  mx' = [mx EXCEPT !.pc = "fragments",
                            !.default_branch_offset = Len(o3),
                            !.lea_offset = Len(o3),
                            !.table_offset = Len(o5),
                            !.out = Table(o5, n)]
    /\ UNCHANGED compVars

\* store ip offset, output branch, output jmp to end
TblFragment ==
    /\ mx.pc = "fragments"
    /\ mx.i < Len(mx.frags)
    /\ LET ip_offset == Len(mx.out) - mx.table_offset
           o1 == PutLE32(mx.out, mx.table_offset + mx.i * 4, ip_offset)
           o2 == OUTS(o1 \o Rep(144, mx.frags[mx.i + 1]), JmpRel32)
       IN  mx' = [mx EXCEPT !.i = @ + 1,
                            !.starts = Append(@, Len(mx.out)),
                            !.end_jumps = Append(@, Len(o2)),
                            !.out = o2]
    /\ UNCHANGED compVars

\* the default branch and the jumps to the end
TblDefault ==
    /\ mx.pc = "fragments"
    /\ mx.i = Len(mx.frags)
    /\ LET o1 == PutLE32(mx.out, mx.default_branch_offset - 4,
                         Len(mx.out) - mx.default_branch_offset)
           o2 == o1 \o Rep(144, mx.dflt)
           RECURSIVE Ends(_, _)
           Ends(o, k) ==
               IF k > Len(mx.end_jumps) THEN o
               ELSE Ends(PutLE32(o, mx.end_jumps[k] - 4,
                                 Len(o2) - mx.end_jumps[k]), k + 1)
       IN  mx' = [mx EXCEPT !.pc = "emitted",
                            !.default_start = Len(mx.out),
                            !.out = Ends(o2, 1)]
    /\ UNCHANGED compVars

\* the processor at the lea: 48 8d 15 disp32 is lea disp32(%rip), %rdx, seven
\* bytes long whatever the handler meant the next bytes to be
TblRun ==
    /\ mx.pc = "emitted"
    /\ mx' = [mx EXCEPT !.pc = "ran",
                        !.rdx = mx.lea_offset + 7
                                + GetLE32(mx.out, mx.lea_offset + 3)]
    /\ UNCHANGED compVars

InitTable ==
    /\ Idle
    /\ \E n \in 1..MaxTable, pre \in 0..2 :
          \E frags \in [1..n -> FragLens], dflt \in FragLens :
             mx = [pc |-> "dispatch", out |-> Rep(144, pre), frags |-> frags,
                   dflt |-> dflt, i |-> 0, default_branch_offset |-> 0,
                   lea_offset |-> 0, table_offset |-> 0, starts |-> <<>>,
                   end_jumps |-> <<>>, default_start |-> 0, rdx |-> 0]

NextTable ==
    \/ TblDispatch
    \/ TblFragment
    \/ TblDefault
    \/ TblRun

SpecTable == InitTable /\ [][NextTable]_vars

(***************************************************************************)
(* One handler run twice on equal inputs: the same instruction, the same   *)
(* static stack, the same empty tables.  What differs between the runs is  *)
(* only what the code leaves indeterminate.                                *)
(***************************************************************************)
TwiceInstrs ==
    {Instr(op) : op \in (PlainOps \ Unsupported) \ {"return"}}
    \cup {[Instr(op) EXCEPT !.idx = k] :
            op \in {"get_global", "set_global"}, k \in 0..(Len(GlobalTypes) - 1)}
    \cup {[Instr(op) EXCEPT !.idx = k] :
            op \in {"call", "call_indirect"}, k \in 0..(Len(FuncTypes) - 1)}

\* a static stack that holds the operands of i above pre other values
TwiceStack(i, pre) ==
    Rep(Value("i64"), pre) \o [k \in 1..Len(Sig(i).pop) |-> Value(Sig(i).pop[k])]

\* what compile_function hands back: the code and the relocation entries
Handed(r) ==
    [res |-> r.res, outN |-> r.outN, addrImms |-> r.addrImms,
     constImms |-> r.constImms, memrefs |-> r.memrefs]

RunOnce(i, s0, g) ==
    Handed(Exec(Steps(i, s0, locals_md, type, n_frame_locals, g),
                [StartSt(0, g) EXCEPT !.sstack = s0]))

FirstRun ==
    /\ mx.pc = "twice"
    /\ mx.n = 0
    /\ \E g \in GarbageFor(mx.i.op) :
          mx' = [mx EXCEPT !.n = 1, !.first = RunOnce(mx.i, mx.s0, g)]
    /\ UNCHANGED compVars

SecondRun ==
    /\ mx.pc = "twice"
    /\ mx.n = 1
    /\ \E g \in GarbageFor(mx.i.op) :
          mx' = [mx EXCEPT !.n = 2, !.second = RunOnce(mx.i, mx.s0, g)]
    /\ UNCHANGED compVars

InitTwice ==
    /\ Idle
    /\ \E i \in TwiceInstrs, pre \in 0..1 :
          mx = [pc |-> "twice", n |-> 0, i |-> i, s0 |-> TwiceStack(i, pre),
                first |-> <<>>, second |-> <<>>]

NextTwice ==
    \/ FirstRun
    \/ SecondRun

SpecTwice == InitTwice /\ [][NextTwice]_vars

(***************************************************************************)
(* The structured instructions around bodies of nop, i32.const and drop,   *)
(* in a function without parameters, results and locals.                   *)
(***************************************************************************)
LabelInstrs == {Instr("nop"), Instr("i32.const"), Instr("drop")}

StepPlain == StepIn(LabelInstrs)

InitLabels == Init /\ type = FuncTypes[1] /\ decl = <<>>

NextLabels ==
    \/ Prologue
    \/ StepPlain
    \/ EnterBlock
    \/ EnterIf
    \/ Else
    \/ End
    \/ Finish

SpecLabels == InitLabels /\ [][NextLabels]_vars

(***************************************************************************)
(* emit_br_code inside blocks, loops and ifs, with the run-time operand    *)
(* stack beside the static one.  phys is the operand cells above the       *)
(* frame, each the number of the instruction that pushed it; open holds,   *)
(* per open                                                                *)
(* construct, the height of phys when its label slot was pushed.  Until    *)
(* the branch the path taken is the then-path or, after BrElse, the path   *)
(* that jumps from the if's je to the else-body.                           *)
(***************************************************************************)
MaxBrDepth == 2     \* open constructs
MaxBrCells == 3     \* operand cells
MaxBrInstr == 6     \* i32.const, block and if instructions before the branch

\* the code emit_br_code emits for label index L, run on phys: rep movsq
\* copies the top arity cells up by stack_shift, add moves %rsp
BranchRun(s, phys, L) ==
    LET r == Exec(<<Br(L)>>, [StartSt(0, NoGarbage) EXCEPT !.sstack = s])
        j == Walk(s, Len(s), L)
        arity == s[j + 1].arity
        height == Len(phys) + r.rsp
    IN  [res |-> r.res,
         phys |-> IF r.res = "run" /\ height >= arity
                  THEN SubSeq(phys, 1, height - arity) \o Suffix(phys, arity)
                  ELSE <<>>]

BrConst ==
    /\ mx.pc = "br"
    /\ Len(mx.phys) < MaxBrCells
    /\ mx.next <= MaxBrInstr
    /\ mx' = [mx EXCEPT !.sstack = Append(@, Value("i32")),
                        !.phys = Append(@, mx.next),
                        !.next = @ + 1]
    /\ UNCHANGED compVars

BrBlock ==
    /\ mx.pc = "br"
    /\ Len(mx.open) < MaxBrDepth
    /\ mx.next <= MaxBrInstr
    /\ \E arity \in {0, 1}, kind \in {"block", "loop"} :
          mx' = [mx EXCEPT
                   !.next = @ + 1,
                   !.sstack = Append(@, LabelSlot(arity, Len(mx.open))),
                   !.open = Append(@, [kind |-> kind, phase |-> "then",
                                       arity |-> arity,
                                       stack_idx |-> Len(mx.sstack),
                                       height |-> Len(mx.phys)])]
    /\ UNCHANGED compVars

\* pop the condition, push the label
BrIf ==
    /\ mx.pc = "br"
    /\ Len(mx.open) < MaxBrDepth
    /\ mx.next <= MaxBrInstr
    /\ mx.phys # <<>>
    /\ mx.open # <<>> => Len(mx.phys) > Last(mx.open).height
    /\ \E arity \in {0, 1} :
          mx' = [mx EXCEPT
                   !.next = @ + 1,
                   !.sstack = Append(Front(@), LabelSlot(arity, Len(mx.open))),
                   !.phys = Front(@),
                   !.open = Append(@, [kind |-> "if", phase |-> "then",
                                       arity |-> arity,
                                       stack_idx |-> Len(mx.sstack) - 1,
                                       height |-> Len(mx.phys) - 1])]
    /\ UNCHANGED compVars

\* the then-body is complete; the else-body is entered from the je with the
\* operand stack as it was after the condition was popped; the handler does
\* not touch the static stack between the two bodies
BrElse ==
    /\ mx.pc = "br"
    /\ mx.open # <<>>
    /\ Last(mx.open).kind = "if"
    /\ Last(mx.open).phase = "then"
    /\ Len(mx.phys) = Last(mx.open).height + Last(mx.open).arity
    /\ mx' = [mx EXCEPT !.phys = SubSeq(@, 1, Last(mx.open).height),
                        !.open = [@ EXCEPT ![Len(@)].phase = "else"]]
    /\ UNCHANGED compVars

\* the construct is complete: shift the results over the label slot
BrEnd ==
    /\ mx.pc = "br"
    /\ mx.open # <<>>
    /\ Len(mx.phys) = Last(mx.open).height + Last(mx.open).arity
    /\ Last(mx.open).kind = "if" /\ Last(mx.open).phase = "then"
          => Last(mx.open).arity = 0
    /\ mx' = [mx EXCEPT
                !.sstack = ShiftResults(@, Last(mx.open).stack_idx,
                                        Last(mx.open).arity, "i32"),
                !.open = Front(@)]
    /\ UNCHANGED compVars

\* the operands a validated branch to the construct c carries: the results
\* of a block or if, nothing for a loop
Operands(c) == IF c.kind = "loop" THEN 0 ELSE c.arity

\* br L, validated: the operands of the target label are on the stack
BrBranch ==
    /\ mx.pc = "br"
    /\ \E L \in 0..(Len(mx.open) - 1) :
          LET target == mx.open[Len(mx.open) - L]
              r == BranchRun(mx.sstack, mx.phys, L)
          IN  /\ Len(mx.phys) >= Last(mx.open).height + Operands(target)
              /\ mx' = [mx EXCEPT
                          !.pc = IF r.res = "run" THEN "branched" ELSE "aborted",
                          !.before = mx.phys,
                          !.target = target,
                          !.phys = r.phys]
    /\ UNCHANGED compVars

InitBr ==
    /\ Idle
    /\ mx = [pc |-> "br", sstack |-> <<>>, phys |-> <<>>, open |-> <<>>,
             next |-> 1, before |-> <<>>,
             target |-> [kind |-> "", phase |-> "", arity |-> 0,
                         stack_idx |-> 0, height |-> 0]]

NextBr ==
    \/ BrConst
    \/ BrBlock
    \/ BrIf
    \/ BrElse
    \/ BrEnd
    \/ BrBranch

SpecBr == InitBr /\ [][NextBr]_vars

(***************************************************************************)
(* The bounds check of a load / store with 32-bit operands: pop %rsi,      *)
(* add <4 + offset>, %rsi, cmp %rax, %rsi, jle.  Values are pairs of       *)
(* 16-bit halves; %rsi and %rax are the signed reading of the 64-bit       *)
(* registers, which is what jle compares.                                  *)
(***************************************************************************)
\* i32 addresses and static offsets the check is run on
BoundWords ==
    {WInt(0), WInt(8), Wide(Half \div 2 - 1, Half - 4), Wide(Half \div 2, 0),
     Wide(Half - 1, Half - 4), Wide(Half - 1, Half - 1)}

\* sizes of the memory in bytes
BoundSizes == {WInt(0), WInt(16), Wide(1, 0), Wide(Half, 0)}

\* 4 + extra->offset in uint32_t
Plus4(off) == ToUint32(WAdd(off, WInt(4)))

\* pop %rsi: the cell of the i32 address, zero-extended
BcPop ==
    /\ mx.pc = "pop"
    /\ mx' = [mx EXCEPT !.pc = "add", !.rsi = mx.ea]
    /\ UNCHANGED compVars

\* add <VAL>, %rsi: 48 81 c6 imm32 adds the sign-extended immediate; not
\* emitted when 4 + offset is 0
BcAdd ==
    /\ mx.pc = "add"
    /\ mx' = [mx EXCEPT
                !.pc = "cmp",
                !.rsi = IF Plus4(mx.off) # WInt(0)
                        THEN WAdd(@, SignExtend32(Plus4(mx.off))) ELSE @]
    /\ UNCHANGED compVars

\* cmp %rax, %rsi ; jle AFTER_TRAP ; int $4
BcCmp ==
    /\ mx.pc = "cmp"
    /\ mx' = [mx EXCEPT !.pc = IF WLeq(mx.rsi, mx.size) THEN "access" ELSE "trap"]
    /\ UNCHANGED compVars

InitBound ==
    /\ Idle
    /\ \E ea \in BoundWords, off \in BoundWords, size \in BoundSizes :
          mx = [pc |-> "pop", ea |-> ea, off |-> off, size |-> size,
                rsi |-> WInt(0)]

NextBound ==
    \/ BcPop
    \/ BcAdd
    \/ BcCmp

SpecBound == InitBound /\ [][NextBound]_vars

(***************************************************************************)
(* The result of a call between two compiled functions: the epilogue of    *)
(* the callee, then the code the call handler emits after "call *%rax" and *)
(* the stack clean-up.  v is the result on the callee's operand stack,     *)
(* rax and xmm0 are the registers, left is the register the epilogue       *)
(* wrote, read the register the call site takes the pushed cell from.      *)
(***************************************************************************)
MaxRet == 2         \* largest cell value

RetCells == 0..MaxRet

\* if (FUNC_TYPE_N_OUTPUTS(type)) pop %rax; the rest of the epilogue
\* touches %rsp and %rbp only
RetEpilogue ==
    /\ mx.pc = "callee"
    /\ mx' = IF mx.ty # ""
             THEN [mx EXCEPT !.pc = "returned", !.rax = mx.v, !.left = "rax"]
             ELSE [mx EXCEPT !.pc = "returned"]
    /\ UNCHANGED compVars

\* if the callee has an output: movq %xmm0, %rax for f32 and f64, then
\* push %rax
RetCallSite ==
    /\ mx.pc = "returned"
    /\ mx' = IF mx.ty = "" THEN [mx EXCEPT !.pc = "pushed"]
             ELSE IF mx.ty \in FloatTypes
             THEN [mx EXCEPT !.pc = "pushed", !.rax = mx.xmm0,
                             !.read = "xmm0", !.cell = mx.xmm0]
             ELSE [mx EXCEPT !.pc = "pushed", !.read = "rax", !.cell = mx.rax]
    /\ UNCHANGED compVars

InitRet ==
    /\ Idle
    /\ \E ty \in ValTypes \cup {""}, v \in RetCells, a \in RetCells,
          x \in RetCells :
          mx = [pc |-> "callee", ty |-> ty, v |-> v, rax |-> a, xmm0 |-> x,
                left |-> "", read |-> "", cell |-> 0]

NextRet ==
    \/ RetEpilogue
    \/ RetCallSite

SpecRet == InitRet /\ [][NextRet]_vars

(***************************************************************************)
(* Properties.                                                             *)
(***************************************************************************)
\* a compilation in which no allocation failed and every opcode was one of
\* the switch's cases
Clean == nfail = 0 /\ ~flags.unsup /\ ~flags.nested /\ ~flags.ignored

\* C1: for every supported opcode the emitted code changes %rsp by as many
\* 8-byte cells as the handler changes the number of Value slots of the
\* static stack, and so after a straight-line sequence the number of Value
\* slots is the number of operand cells pushed since the prologue.
StaticStackSound ==
    /\ (Clean /\ last.ok) => (~last.clob /\ last.dRsp = last.dVal)
    /\ (Clean /\ straight /\ pc = "body") =>
          (rspOk /\ ValueCount(sstack) = rspCells)

\* C2: with static offset 0, a load or store of width w at addr = size - w
\* is performed without a trap and inside the buffer, and at
\* addr = size - w + 1 the trap is taken and no byte is touched.
MemoryBoundary ==
    (mx.pc \in {"end", "trap"} /\ mx.off = 0) =>
       /\ mx.addr = mx.size - AccessWidth(mx.op) =>
             (~mx.trapped /\ mx.touched # {}
              /\ mx.touched \subseteq 0..(mx.size - 1))
       /\ mx.addr = mx.size - AccessWidth(mx.op) + 1 =>
             (mx.trapped /\ mx.touched = {})

\* C3: every branch entry that is back-patched names the function exit or a
\* label of the table that has been given its code offset.
BranchResolvable ==
    Clean => \A k \in 1..Len(patch) : patch[k].ok

\* C4: in the returned code the relocation entries' code_offsets are exactly
\* the offsets of the placeholder address immediates, each lies inside the
\* code, and none is the offset of an i64.const / f64.const immediate.
RelocationCoverage ==
    pc = "done" =>
       /\ {memrefs[k].code_offset : k \in 1..Len(memrefs)} = Range(addrImms)
       /\ \A k \in 1..Len(memrefs) : memrefs[k].code_offset + 8 <= outN
       /\ \A k \in 1..Len(memrefs) :
             memrefs[k].code_offset \notin Range(constImms)

\* C5: the relocation entries of one compilation have strictly increasing
\* code_offsets in the order they were appended.
RelocationOrdered ==
    pc = "done" =>
       \A k \in 1..(Len(memrefs) - 1) :
          memrefs[k].code_offset < memrefs[k + 1].code_offset

\* C6: %rsp is a multiple of 16 at every call the code of a call or
\* call_indirect makes.
CallsAligned ==
    (Clean /\ last.ok) => \A k \in 1..Len(last.calls) : last.calls[k] = 0

\* C7: a function with an opcode outside the supported set is not compiled:
\* no code is returned for it.
UnsupportedFails ==
    flags.unsup => pc # "done"

\* C8: when a growth of the static stack, of a table or of the output buffer
\* fails, no code is returned.
AllocFailureFails ==
    (nfail > 0 /\ ~flags.nested) => pc # "done"

\* C9: when an instruction inside a block, loop or if fails to translate, no
\* code is returned.
NoPartialSuccess ==
    flags.nested => pc # "done"

\* C10: at every return of wasmjit_compile_function the locals metadata, the
\* br_table jump arrays and the buffers of the static stack, label table and
\* branch table have been released.
ResourcesReleased ==
    pc \in {"done", "failed"} =>
       (heap = {} /\ sstack = <<>> /\ labels = <<>> /\ branches = <<>>)

\* C11: a relative branch displacement that does not fit a signed 32-bit
\* integer makes wasmjit_compile_function fail: code is never returned with
\* a displacement that was cut to 32 bits.
OverflowFails ==
    mx.pc = "returned" =>
       \A k \in 1..Len(mx.patched) : FitsInt32(mx.patched[k].full)

\* C12: the register-passed parameters (the first six integer and the first
\* eight floating-point ones) and the declared locals get pairwise distinct
\* fp_offsets, multiples of 8 that cover exactly -8 * n_frame_locals .. -8;
\* the k-th other parameter gets 16 + 8 * k; n_frame_locals is the number of
\* register-passed parameters plus the number of declared locals.
InRegister(ins, i) ==
    \/ /\ ins[i] \in IntTypes
       /\ Cardinality({j \in 1..(i - 1) : ins[j] \in IntTypes}) < 6
    \/ /\ ins[i] \in FloatTypes
       /\ Cardinality({j \in 1..(i - 1) : ins[j] \in FloatTypes}) < 8

FrameLayout ==
    pc = "laid" =>
       LET ins == type.inputs
           n == Len(ins)
           inFrame == {i \in 1..n : InRegister(ins, i)}
                      \cup (n + 1)..(n + Len(decl))
           onStack == {i \in 1..n : ~InRegister(ins, i)}
       IN  /\ Len(locals_md) = n + Len(decl)
           /\ n_frame_locals = Cardinality(inFrame)
           /\ \A i, j \in inFrame :
                 i # j => locals_md[i].fp_offset # locals_md[j].fp_offset
           /\ {locals_md[i].fp_offset : i \in inFrame}
                 = {-8 * k : k \in 1..n_frame_locals}
           /\ \A i \in onStack :
                 locals_md[i].fp_offset
                    = 16 + 8 * Cardinality({j \in onStack : j < i})

\* a layout with integer and floating-point parameters left for the stack
\* and with declared locals
FrameLayoutSeen ==
    /\ pc = "laid"
    /\ Len(decl) = MaxLocals
    /\ \E i, j \in 1..Len(type.inputs) :
          /\ i < j
          /\ locals_md[i].fp_offset = 16
          /\ locals_md[j].fp_offset = 24
          /\ type.inputs[j] \in IntTypes
    /\ \E i \in 1..Len(type.inputs) :
          type.inputs[i] \in FloatTypes /\ locals_md[i].fp_offset < 0

\* C13: every cell whose static slot is i32 has its upper 32 bits zero,
\* the cell of i32.const v with the top bit of v set included, and a cell
\* retyped by i64.extend_u_i32 holds the zero extension of the i32.
ZeroExtended ==
    mx.pc = "cells" =>
       \A k \in 1..Len(mx.cells) :
          /\ mx.cells[k].type = "i32" => mx.cells[k].hi = Zero32
          /\ mx.cells[k].hi = mx.cells[k].val.hi
          /\ mx.cells[k].lo = mx.cells[k].val.lo

\* C14: on the path that falls off the end of the body into the epilogue
\* %rsp is %rbp - 8 * (n_frame_locals + n_outputs): the operand cells pushed
\* since the prologue are exactly the results, and %rsp was never
\* overwritten.
FrameBalanced ==
    (Clean /\ straight /\ pc = "done") =>
       (rspOk /\ rspCells = FUNC_TYPE_N_OUTPUTS(type))

\* C15: the displacement emitted for input i addresses the cell that holds
\* argument i, and at the call the k-th stack-passed argument is in the cell
\* the callee reads as its k-th stack-passed parameter, 16 + 8 * k bytes
\* above its frame pointer, which is cell k above %rsp at the call.
ArgumentsAgree ==
    mx.pc \in {"args", "called"} =>
       /\ \A i \in 1..Len(mx.reads) : mx.reads[i] = i
       /\ mx.pc = "called" =>
             LET md == ComputeLocalsMD(mx.ft, <<>>)
             IN  \A i \in 1..Len(mx.ft.inputs) :
                    md[i].fp_offset > 0 =>
                       CellAt(mx.cells, (md[i].fp_offset - 16) \div 8) = i

\* C16: table entry k holds the offset of the fragment of labelidxs[k]
\* relative to the start of the table, the jae leads to the default
\* fragment, and the table starts at the address the lea computes.
TableDispatch ==
    mx.pc = "ran" =>
       /\ \A k \in 1..Len(mx.frags) :
             mx.table_offset + GetLE32(mx.out, mx.table_offset + (k - 1) * 4)
                = mx.starts[k]
       /\ mx.default_branch_offset
             + GetLE32(mx.out, mx.default_branch_offset - 4) = mx.default_start
       /\ mx.rdx = mx.table_offset

\* C17: two runs on equal inputs hand back the same code and the same
\* relocation entries in every field, the idx of the ResolveIndirectCall
\* entries included.
Pure ==
    (mx.pc = "twice" /\ mx.n = 2) => mx.first = mx.second

\* C18: every construct that allocated a continuation id has assigned its
\* Label Table entry when compile_function hands back code.
LabelsAssigned ==
    pc = "done" => \A k \in 1..Len(labels) : labels[k].set

\* C19: the five bytes a back-patch overwrites are bytes of the code
\* buffer, the 0xe9 and the four placeholder bytes of the jump the Branch
\* entry was recorded for, and no other byte changes.
BackPatched ==
    pc = "done" => \A k \in 1..Len(patch) : patch[k].inside

\* C20: after the code of a branch the operand stack is as high as it was
\* when the target label slot was pushed plus arity cells, and these cells
\* hold the top arity values present at the branch.
BranchAdjusts ==
    mx.pc = "branched" =>
       mx.phys = SubSeq(mx.before, 1, mx.target.height)
                    \o Suffix(mx.before, mx.target.arity)

\* C21: the value compared against the memory size is ea + off + 4 as an
\* unbounded integer, and the access is reached only when
\* ea + off + 4 <= size.
BoundsArithmetic ==
    LET sum == WAdd(WAdd(mx.ea, mx.off), WInt(4))
    IN  /\ mx.pc \in {"cmp", "access", "trap"} => mx.rsi = sum
        /\ mx.pc = "access" => WLeq(sum, mx.size)

\* C22: where an else-body starts, with the operand stack as it was after
\* the condition was popped, the static stack is the one the then-body
\* started with, the if's label slot on top; and so in the else-body the
\* number of Value slots is the height of the operand stack.
ElseStackReset ==
    (mx.pc = "br" /\ mx.open # <<>> /\ Last(mx.open).phase = "else") =>
       /\ Len(mx.phys) = Last(mx.open).height =>
             /\ Len(mx.sstack) = Last(mx.open).stack_idx + 1
             /\ Last(mx.sstack).type = "label"
       /\ ValueCount(mx.sstack) = Len(mx.phys)

\* C23: when a block, loop or if at the level of the function body is
\* complete, the static stack holds no Label slot, and as many slots as the
\* validated operand stack: those below the construct and its arity results.
ConstructLeavesValues ==
    (Clean /\ pc = "body" /\ last.op = "end" /\ Depth = 0) =>
       /\ \A k \in 1..Len(sstack) : sstack[k].type # "label"
       /\ Len(sstack) = Len(vstack)

\* C24: wherever a br with a label index from 0 to the nesting depth is the
\* next instruction of a validated body, the slot the walk of emit_br_code
\* stops at exists and is a Label slot.
BranchSelectsLabel ==
    CanTranslate =>
       \A i \in Candidates :
          (i.op = "br" /\ Valid(i)) =>
             /\ sstack # <<>>
             /\ sstack[Walk(sstack, Len(sstack), i.idx) + 1].type = "label"

\* C25: the code of a branch to a loop label leaves the operand stack as
\* high as it was when the loop was entered.
LoopHeadHeight ==
    (mx.pc = "branched" /\ mx.target.kind = "loop") =>
       Len(mx.phys) = mx.target.height

\* C26: after a call of a compiled function with a result, the register the
\* call site took the pushed cell from is the register the callee's epilogue
\* left the result in, and the pushed cell is that result.
ResultRegisterAgrees ==
    (mx.pc = "pushed" /\ mx.ty # "") =>
       /\ mx.read = mx.left
       /\ mx.cell = mx.v

====
